---- MODULE Spec2Model ----
(***************************************************************************)
(* A model of confluence_reader.py: the extraction orchestrator run(), the *)
(* content normalizer, the image/table extractor and the comment thread    *)
(* flattener.                                                              *)
(*                                                                         *)
(* A Python str is a sequence of tokens: a token is one character of       *)
(* variable text ("a", " ", "\n") or one literal chunk of a format string  *)
(* ("Headers: "); concatenation is \o and the empty string is << >>.       *)
(***************************************************************************)
EXTENDS Integers, Sequences, FiniteSets, TLC

(***************************************************************************)
(* Bounds of the model.                                                    *)
(***************************************************************************)
MaxTextLen == 6
MaxImages == 2
MaxAttachments == 1
MaxComments == 2
MaxReplies == 2
MaxLineLen == 5
MaxUrlParts == 4

(***************************************************************************)
(* str helpers, each computed as Python computes it.                       *)
(***************************************************************************)
Whitespace == {" ", "\n"}

\* str.split(sep) for a one-character sep: n separators give n+1 pieces
RECURSIVE split(_, _)
split(s, sep) ==
    IF \A k \in 1..Len(s) : s[k] # sep
    THEN <<s>>
    ELSE LET k == CHOOSE i \in 1..Len(s) :
                       s[i] = sep /\ \A j \in 1..(i - 1) : s[j] # sep
         IN  <<SubSeq(s, 1, k - 1)>> \o split(SubSeq(s, k + 1, Len(s)), sep)

\* str.strip(): leading and trailing whitespace removed
RECURSIVE strip(_)
strip(s) ==
    IF s = << >> THEN << >>
    ELSE IF Head(s) \in Whitespace THEN strip(Tail(s))
    ELSE IF s[Len(s)] \in Whitespace THEN strip(SubSeq(s, 1, Len(s) - 1))
    ELSE s

\* str.split() without argument: the maximal runs of non-whitespace
RECURSIVE split_ws(_)
split_ws(s) ==
    LET t == strip(s)
    IN  IF t = << >> THEN << >>
        ELSE IF \A k \in 1..Len(t) : t[k] \notin Whitespace
        THEN <<t>>
        ELSE LET k == CHOOSE i \in 1..Len(t) :
                           t[i] \in Whitespace
                           /\ \A j \in 1..(i - 1) : t[j] \notin Whitespace
             IN  <<SubSeq(t, 1, k - 1)>> \o split_ws(SubSeq(t, k + 1, Len(t)))

\* sep.join(parts)
RECURSIVE join(_, _)
join(sep, parts) ==
    IF parts = << >> THEN << >>
    ELSE IF Len(parts) = 1 THEN parts[1]
    ELSE parts[1] \o sep \o join(sep, Tail(parts))

\* the concatenation of a sequence of strings
RECURSIVE concat(_)
concat(parts) ==
    IF parts = << >> THEN << >> ELSE Head(parts) \o concat(Tail(parts))

NonEmpty(s) == s # << >>

\* sub in s
in_str(sub, s) ==
    \E k \in 0..(Len(s) - Len(sub)) : SubSeq(s, k + 1, k + Len(sub)) = sub

\* str.split(sep) for a sep of several characters: the occurrences of sep
\* are taken left to right without overlap
RECURSIVE split_on(_, _)
split_on(s, sep) ==
    IF ~in_str(sep, s) THEN <<s>>
    ELSE LET k == CHOOSE i \in 0..(Len(s) - Len(sep)) :
                       /\ SubSeq(s, i + 1, i + Len(sep)) = sep
                       /\ \A j \in 0..(i - 1) : SubSeq(s, j + 1, j + Len(sep)) # sep
         IN  <<SubSeq(s, 1, k)>> \o split_on(SubSeq(s, k + Len(sep) + 1, Len(s)), sep)

HasToken(s, tok) == \E k \in 1..Len(s) : s[k] = tok

(***************************************************************************)
(* The outcome of a call: a value returned or an exception raised.         *)
(***************************************************************************)
Return(v) == [raised |-> FALSE, value |-> v]
Raise(e) == [raised |-> TRUE, value |-> <<e>>]

(***************************************************************************)
(* Image bytes, by what the image library and the OCR engine do with them: *)
(* empty says the byte string has length 0, decode and ocr are "ok" or the *)
(* message of the exception Image.open / image_to_string raises, text is   *)
(* the OCR output.                                                         *)
(***************************************************************************)
DecodeError == "cannot identify image file"
OcrError == "tesseract failed"

Bytes(empty, decode, ocr, text) ==
    [empty |-> empty, decode |-> decode, ocr |-> ocr, text |-> text]

OcrAlphabet == {"a", "b", " ", "\n"}

OcrTexts == UNION {[1..n -> OcrAlphabet] : n \in 0..MaxTextLen}

ImageBytes ==
    {Bytes(TRUE, DecodeError, "ok", << >>),
     Bytes(FALSE, DecodeError, "ok", << >>),
     Bytes(FALSE, "ok", OcrError, << >>)}
    \cup {Bytes(FALSE, "ok", "ok", t) : t \in OcrTexts}

\* a slip of lines 312-313: the row number never advances
RECURSIVE table_rows_stuck(_, _)
table_rows_stuck(rows, first) ==
    IF rows = << >> THEN << >>
    ELSE <<"Row ", ToString(first), ": ">> \o Head(rows) \o <<"\n">>
         \o table_rows_stuck(Tail(rows), first)

\* lines 312-313: "Row {i}: {row}\n" for i counting from `first`
RECURSIVE table_rows(_, _)
table_rows(rows, first) ==
    IF rows = << >> THEN << >>
    ELSE <<"Row ", ToString(first), ": ">> \o Head(rows) \o <<"\n">>
         \o table_rows(Tail(rows), first + 1)

\* line 292: lines = [line.strip() for line in text.split('\n') if line.strip()]
ocr_lines(text) ==
    LET raw == split(text, "\n")
        stripped == [k \in 1..Len(raw) |-> strip(raw[k])]
    IN  SelectSeq(stripped, NonEmpty)

\* lines 296-315: the table branch
format_table(lines) ==
    LET joined == [k \in 1..Len(lines) |-> join(<<" ">>, split_ws(lines[k]))]
        cleaned_lines == SelectSeq(joined, NonEmpty)
    IN  IF Len(cleaned_lines) > 0
        THEN <<"TABLE DATA (structured for analysis):\n">>
             \o <<"Headers: ">> \o cleaned_lines[1] \o <<"\n">>
             \o table_rows(Tail(cleaned_lines), 1)
        ELSE <<"TABLE DATA:\n">> \o join(<<"\n">>, lines)

\* a slip of lines 284-322: no try/except around the decoding
extract_table_from_image_unguarded(image_data) ==
    IF image_data.decode # "ok"
    THEN Raise(image_data.decode)
    ELSE IF image_data.ocr # "ok"
    THEN Raise(image_data.ocr)
    ELSE LET text == image_data.text
             lines == ocr_lines(text)
         IN  IF Len(lines) > 1
             THEN Return(format_table(lines))
             ELSE Return(<<"IMAGE CONTENT: ">> \o text)

\* a slip of line 294: len(lines) > 0 in place of len(lines) > 1
extract_table_from_image_gt0(image_data) ==
    IF image_data.decode # "ok"
    THEN Return(<<"[Unable to process image: ", image_data.decode, "]">>)
    ELSE IF image_data.ocr # "ok"
    THEN Return(<<"[Unable to process image: ", image_data.ocr, "]">>)
    ELSE LET text == image_data.text
             lines == ocr_lines(text)
         IN  IF Len(lines) > 0
             THEN Return(format_table(lines))
             ELSE Return(<<"IMAGE CONTENT: ">> \o text)

\* lines 282-322
extract_table_from_image(image_data) ==
    IF image_data.decode # "ok"
    THEN Return(<<"[Unable to process image: ", image_data.decode, "]">>)
    ELSE IF image_data.ocr # "ok"
    THEN Return(<<"[Unable to process image: ", image_data.ocr, "]">>)
    ELSE LET text == image_data.text
             lines == ocr_lines(text)
         IN  IF Len(lines) > 1
             THEN Return(format_table(lines))
             ELSE Return(<<"IMAGE CONTENT: ">> \o text)

(***************************************************************************)
(* Markup.  An HTML string is a sequence of tokens: a character of text or *)
(* a tag.  html2text is a library outside the repository; HTML2Text.handle *)
(* (lines 248, 404) is modelled by what it does to these tokens: a         *)
(* paragraph end becomes a line break, every other tag is dropped and the  *)
(* text is kept.                                                           *)
(***************************************************************************)
HtmlTags == {"<p>", "</p>", "<img src>", "<img>",
             "<ri:attachment ri:filename>", "<ri:attachment>"}

RECURSIVE html2text_handle(_)
html2text_handle(html) ==
    IF html = << >> THEN << >>
    ELSE IF Head(html) = "</p>" THEN <<"\n">> \o html2text_handle(Tail(html))
    ELSE IF Head(html) \in HtmlTags THEN html2text_handle(Tail(html))
    ELSE <<Head(html)>> \o html2text_handle(Tail(html))

\* str.replace(cc, '') for a doubled character, left to right
RECURSIVE remove_pairs(_, _)
remove_pairs(s, c) ==
    IF Len(s) < 2 THEN s
    ELSE IF s[1] = c /\ s[2] = c THEN remove_pairs(SubSeq(s, 3, Len(s)), c)
    ELSE <<s[1]>> \o remove_pairs(Tail(s), c)

\* a slip of lines 256-257 and 413-414: replace(c, '', 1), the first
\* occurrence only
remove_first_char(s, c) ==
    IF \A k \in 1..Len(s) : s[k] # c THEN s
    ELSE LET k == CHOOSE i \in 1..Len(s) :
                       s[i] = c /\ \A j \in 1..(i - 1) : s[j] # c
         IN  SubSeq(s, 1, k - 1) \o SubSeq(s, k + 1, Len(s))

\* str.replace(c, '')
remove_char(s, c) == SelectSeq(s, LAMBDA x : x # c)

\* str.replace('  ', ' '): one pass, left to right, over disjoint pairs
RECURSIVE replace_double_space(_)
replace_double_space(s) ==
    IF Len(s) < 2 THEN s
    ELSE IF s[1] = " " /\ s[2] = " "
    THEN <<" ">> \o replace_double_space(SubSeq(s, 3, Len(s)))
    ELSE <<s[1]>> \o replace_double_space(Tail(s))

\* lines 256-258 and 413-415
clean_line(line) ==
    replace_double_space(
        remove_char(remove_pairs(remove_char(remove_pairs(line, "*"), "*"), "#"), "#"))

\* lines 251-261 and 407-418
clean_lines(text) ==
    LET lines == split(text, "\n")
        stripped == SelectSeq([k \in 1..Len(lines) |-> strip(lines[k])], NonEmpty)
        cleaned_lines == [k \in 1..Len(stripped) |-> clean_line(stripped[k])]
    IN  join(<<" ">>, cleaned_lines)

(***************************************************************************)
(* Comments.  A comment of the API is a record; "" stands for a key the    *)
(* payload does not carry.  The keys is_reply and parent_id exist only on  *)
(* the replies get_page_comments has marked.                               *)
(***************************************************************************)
CommentBody == <<"<p>", "h", "i", "</p>">>

ApiComment(k, hasid, hasbody) ==
    [id |-> IF hasid THEN "c" \o ToString(k) ELSE "",
     by |-> IF hasid THEN "Ann" ELSE "",
     when |-> IF hasid THEN "2024-01-01" ELSE "",
     ancestors |-> IF hasid THEN << >> ELSE <<"Parent">>,
     body |-> IF hasbody THEN CommentBody ELSE << >>]

ApiReply(parent, k, hasbody) ==
    [id |-> parent \o "r" \o ToString(k),
     by |-> "Bob",
     when |-> "2024-01-02",
     ancestors |-> << >>,
     body |-> IF hasbody THEN CommentBody ELSE << >>]

\* the comment lists the remote can answer with, up to maxc comments
CommentResults(maxc) ==
    UNION {{[k \in 1..n |-> ApiComment(k, f[k][1], f[k][2])] :
                f \in [1..n -> BOOLEAN \X BOOLEAN]} : n \in 0..maxc}

\* the reply lists the remote can answer with, up to maxr replies
ReplyResults(parent, maxr) ==
    UNION {{[k \in 1..n |-> ApiReply(parent, k, f[k])] :
                f \in [1..n -> BOOLEAN]} : n \in 0..maxr}

\* a slip of line 173: the reply's own id is taken for its parent's
mark_reply_own_id(reply, comment_id) ==
    reply @@ [is_reply |-> TRUE, parent_id |-> reply.id]

\* lines 172-173
mark_reply(reply, comment_id) ==
    reply @@ [is_reply |-> TRUE, parent_id |-> comment_id]

\* line 212: comment.get('is_reply', False)
is_reply(comment) ==
    IF "is_reply" \in DOMAIN comment THEN comment.is_reply ELSE FALSE

\* lines 182-195
get_commented_content(comment) ==
    IF comment.ancestors # << >> /\ comment.ancestors[Len(comment.ancestors)] # ""
    THEN <<"Commenting on: ", comment.ancestors[Len(comment.ancestors)]>>
    ELSE <<"Commenting on: Main page content">>

\* a slip of lines 223-224: the reset starts one top-level comment late
reset_reply_counter_late(comment_counter, reply_counter) ==
    IF comment_counter > 2 THEN 0 ELSE reply_counter

\* lines 223-224
reset_reply_counter(comment_counter, reply_counter) ==
    IF comment_counter > 1 THEN 0 ELSE reply_counter

\* lines 236-269: the entry of one comment that has a body
render_comment(comment, prefix, indent) ==
    LET author == IF comment.by = "" THEN "Unknown" ELSE comment.by
        created == IF comment.when = "" THEN "Unknown time" ELSE comment.when
        clean_comment == clean_lines(strip(html2text_handle(comment.body)))
    IN  indent \o <<"--- ">> \o prefix \o <<" ---\n">>
        \o indent \o <<"Author: ", author, "\n">>
        \o indent \o <<"Date: ", created, "\n">>
        \o (IF ~is_reply(comment)
            THEN indent \o get_commented_content(comment) \o <<"\n">>
            ELSE << >>)
        \o indent \o <<"Content: ">> \o clean_comment \o <<"\n\n">>

\* lines 210-269: one iteration of the loop of process_comments
comment_step(st, comment) ==
    LET reply == is_reply(comment)
        reply_counter1 == IF reply THEN st.reply_counter + 1 ELSE st.reply_counter
        comment_counter1 == IF reply THEN st.comment_counter
                            ELSE st.comment_counter + 1
        prefix == IF reply THEN <<"  REPLY ", ToString(reply_counter1)>>
                  ELSE <<"COMMENT ", ToString(comment_counter1)>>
        indent == IF reply THEN <<"    ">> ELSE << >>
    IN  [comment_counter |-> comment_counter1,
         reply_counter |-> IF reply THEN reply_counter1
                           ELSE reset_reply_counter(comment_counter1, reply_counter1),
         prefix |-> prefix,
         comments_text |->
             IF comment.body # << >>
             THEN st.comments_text \o render_comment(comment, prefix, indent)
             ELSE st.comments_text]

CommentsHeader == <<"\n\nPAGE COMMENTS AND DISCUSSIONS:\n\n">>

\* lines 205-208: the state the loop starts in
comment_loop_start ==
    [comment_counter |-> 0, reply_counter |-> 0, prefix |-> << >>,
     comments_text |-> CommentsHeader]

RECURSIVE comment_loop(_, _)
comment_loop(st, comments) ==
    IF comments = << >> THEN st
    ELSE comment_loop(comment_step(st, Head(comments)), Tail(comments))

\* a slip of lines 200-201: no early return for an empty list
process_comments_no_guard(comments) ==
    comment_loop(comment_loop_start, comments).comments_text

\* lines 197-271
process_comments(comments) ==
    IF comments = << >> THEN << >>
    ELSE comment_loop(comment_loop_start, comments).comments_text

(***************************************************************************)
(* run(): its inputs, the remote's answers and the messages of its errors. *)
(* "" stands for a parameter or an environment variable that is not set.   *)
(***************************************************************************)
Creds(e, t, ee, et) ==
    [email |-> e, api_token |-> t, CONFLUENCE_EMAIL |-> ee, CONFLUENCE_API_TOKEN |-> et]

CredentialCases ==
    {Creds("p@x", "ptok", "e@x", "etok"),
     Creds("", "", "e@x", "etok"),
     Creds("", "ptok", "", "etok"),
     Creds("p@x", "", "e@x", ""),
     Creds("", "", "", "")}

\* a URL is a string of characters
PagesMark == <<"/", "p", "a", "g", "e", "s", "/">>
PageIdMark == <<"p", "a", "g", "e", "I", "d", "=">>
UrlHost == <<"h", "t", "t", "p", "s", ":", "/", "/", "x">>

UrlPages == UrlHost \o <<"/", "w">> \o PagesMark \o <<"7", "/", "T">>
UrlNoId == UrlHost \o <<"/", "w">>
Urls == {UrlPages, UrlNoId}

AuthAnswers == {"200", "401", "unreachable"}
PageAnswers == {"200", "403", "404", "unreachable"}

MsgNoEmail == <<"CONFLUENCE_EMAIL not provided in params or environment variables">>
MsgNoToken == <<"CONFLUENCE_API_TOKEN not provided in params or environment variables">>
MsgNoPageId ==
    <<"Unable to extract page ID from URL. Please provide a valid Confluence page URL.">>
MsgAuthFailed == <<"Authentication failed. Please check your credentials.">>
MsgFetch(e) == <<"Error fetching content: ", e>>
MsgKeyError(k) == <<"'" \o k \o "'">>
MsgDumpFailed == <<"[Errno 13] Permission denied: 'debug_html.html'">>

\* a slip of lines 507-510: the query shape is looked for first
extract_page_id_query_first(url) ==
    IF in_str(PageIdMark, url)
    THEN LET parts == split_on(url, PageIdMark)
         IN  Return(split(parts[Len(parts)], "&")[1])
    ELSE IF in_str(PagesMark, url)
    THEN LET parts == split_on(url, PagesMark)
         IN  Return(split(parts[Len(parts)], "/")[1])
    ELSE Raise(MsgNoPageId[1])

\* lines 505-512
extract_page_id_from_url(url) ==
    IF in_str(PagesMark, url)
    THEN LET parts == split_on(url, PagesMark)
         IN  Return(split(parts[Len(parts)], "/")[1])
    ELSE IF in_str(PageIdMark, url)
    THEN LET parts == split_on(url, PageIdMark)
         IN  Return(split(parts[Len(parts)], "&")[1])
    ELSE Raise(MsgNoPageId[1])

\* lines 446-447: scheme://netloc, as urlparse gives them for a URL that
\* has a scheme: the netloc ends before the first "/", "?" or "#"
base_url_of(url) ==
    LET start == Len(split_on(url, <<":", "/", "/">>)[1]) + 3
        rest == SubSeq(url, start + 1, Len(url))
        ends == {k \in 1..Len(rest) : rest[k] \in {"/", "?", "#"}}
        netloc == IF ends = {} THEN rest
                  ELSE SubSeq(rest, 1, (CHOOSE k \in ends : \A j \in ends : k <= j) - 1)
    IN  SubSeq(url, 1, start) \o netloc

\* a slip of lines 439-442: the token is checked before the email
credential_error_token_first(email_, token_) ==
    IF token_ = "" THEN MsgNoToken
    ELSE IF email_ = "" THEN MsgNoEmail
    ELSE << >>

\* lines 439-442: the message of the credential that is missing, if any
credential_error(email_, token_) ==
    IF email_ = "" THEN MsgNoEmail
    ELSE IF token_ = "" THEN MsgNoToken
    ELSE << >>

\* a slip of lines 436-437: the environment is asked first
env_or_else(a, b) == IF b # "" THEN b ELSE a

\* line 436-437: a or b
or_else(a, b) == IF a # "" THEN a ELSE b

(***************************************************************************)
(* The page payload: keys are the keys the JSON carries (body, storage and *)
(* value nest), html is body.storage.value.                                *)
(***************************************************************************)
PageKeys == {"id", "title", "type", "status", "body", "storage", "value"}

Page(keys, html) ==
    [keys |-> keys, id |-> "123456", title |-> "Title", type |-> "page",
     status |-> "current", html |-> html]

ImgKinds == {"<img src>", "<img>"}
AttKinds == {"<ri:attachment ri:filename>", "<ri:attachment>"}

SeqsUpTo(S, n) == UNION {[1..k -> S] : k \in 0..n}

Html(imgs, atts) ==
    <<"<p>", "#", "T", "</p>">> \o imgs \o atts \o <<"<p>", "b", "</p>">>

Payloads(maxi, maxa) ==
    {Page(PageKeys, Html(i, a)) : i \in SeqsUpTo(ImgKinds, maxi),
                                  a \in SeqsUpTo(AttKinds, maxa)}
    \cup {Page(PageKeys \ {k}, Html(<<"<img src>">>, <<"<ri:attachment ri:filename>">>)) :
              k \in PageKeys}
    \cup {Page(PageKeys \ {"id"}, Html(<< >>, << >>))}

\* the positions of the elements of the given kinds, in document order
positions(html, kinds) ==
    SelectSeq([k \in 1..Len(html) |-> k], LAMBDA k : html[k] \in kinds)

\* the answers of the remote to a download: an error, or bytes (an answer
\* may carry no byte at all)
EmptyBytes == Bytes(TRUE, DecodeError, "ok", << >>)
CorruptBytes == Bytes(FALSE, DecodeError, "ok", << >>)
TableBytes == Bytes(FALSE, "ok", "ok", <<"a", " ", " ", "b", "\n", "c">>)
NoData == Bytes(TRUE, "none", "none", << >>)
Failed(e) == [error |-> e, content |-> NoData]
Answered(b) == [error |-> "", content |-> b]
Downloads ==
    {Failed("404"), Answered(EmptyBytes), Answered(CorruptBytes), Answered(TableBytes)}
\* the answers sampled for an attachment, which takes the same path
AttachmentDownloads == {Failed("404"), Answered(CorruptBytes), Answered(TableBytes)}

\* a slip of lines 275-280: no try/except around the request
download_image_unguarded(response) ==
    IF response.error # "" THEN Raise(response.error)
    ELSE Return(response.content)

\* lines 273-280: None (NoData) on any error
download_image(response) ==
    IF response.error # "" THEN Return(NoData)
    ELSE Return(response.content)

\* a slip of lines 371, 388: image_data is not None, which bytes of length 0
\* pass
truthy_not_none(data) == data # NoData

\* lines 371, 388: the truthiness of image_data
truthy(data) == data # NoData /\ ~data.empty

\* lines 374-375: the block of image n and the token that replaces it
image_block(n, table) == <<"\n--- IMAGE ", ToString(n), " ---\n">> \o table \o <<"\n">>
image_token(n) == "[IMAGE_" \o ToString(n) \o "_PROCESSED_BELOW]"
\* line 391
attachment_block(n, table) ==
    <<"\n--- ATTACHMENT ", ToString(n), " ---\n">> \o table \o <<"\n">>

ImagesHeader == <<"\n\nEXTRACTED IMAGES AND TABLES:\n">>
DebugNote == <<"\n\nDEBUG: No images were successfully processed">>
NoBody == <<"No content body found">>

\* lines 393-427: the text reduction and the final document
final_content(soup_, image_texts_, debug) ==
    clean_lines(html2text_handle(soup_))
    \o (IF image_texts_ # << >> THEN ImagesHeader \o concat(image_texts_)
        ELSE IF debug THEN DebugNote
        ELSE << >>)

\* a slip of line 468: the comments are fetched whatever include_comments says
after_normalize_always(include_comments) == "comments"

\* line 468: where run goes after the normalization
after_normalize(include_comments) ==
    IF include_comments THEN "comments" ELSE "persist"

\* lines 491-500
success_envelope(content_, processed, url, output_file) ==
    [status |-> "success", title |-> content_.title, type |-> content_.type,
     status_field |-> content_.status, content |-> processed,
     page_id |-> content_.id, url |-> url, output_file |-> output_file]

\* lines 440, 442, 454, 503
error_envelope(message) == [status |-> "error", message |-> message]

\* the first of the keys, in the order the code reads them, the payload lacks
RECURSIVE first_missing(_, _)
first_missing(content_, keys) ==
    IF keys = << >> THEN ""
    ELSE IF Head(keys) \notin content_.keys THEN Head(keys)
    ELSE first_missing(content_, Tail(keys))

(***************************************************************************)
(* State.                                                                  *)
(***************************************************************************)
VARIABLES
    DEBUG_MODE,        \* the module's global debug flag (line 17)
    params,            \* the argument of run
    environ,           \* os.environ
    remote,            \* how the remote answers the probe and the page fetch
    pc,                \* the position of run; "direct" when run is not called
    email,             \* locals of run
    token,
    page_id,
    content,
    processed_content,
    soup,              \* locals of process_confluence_content
    idx,
    image_texts,
    result,            \* what run returned
    gpc,               \* the frame of get_page_comments
    flat,              \* the frame of a direct call of process_comments
    calls,             \* the network calls and file writes made, in order
    ocr_pc,            \* position of a direct call of extract_table_from_image
    image_data,        \* its argument
    table_text,        \* its outcome
    cleanup,           \* the frame of a direct call of the line cleanup
    threads            \* the frames of two run invocations in one process

run_vars == <<DEBUG_MODE, params, environ, remote, pc, email, token, page_id,
              content, processed_content, soup, idx, image_texts, result>>
ocr_vars == <<ocr_pc, image_data, table_text>>
other_vars == <<cleanup, threads>>
vars == <<DEBUG_MODE, params, environ, remote, pc, email, token, page_id,
          content, processed_content, soup, idx, image_texts, result,
          gpc, flat, calls, ocr_pc, image_data, table_text, cleanup, threads>>

NoOutcome == Return(<<"<none>">>)
NoResult == [status |-> "none"]
NoPage == Page({}, << >>)
NoParams ==
    [email |-> "", api_token |-> "", url |-> << >>, debug |-> FALSE,
     output_file |-> "", include_comments |-> FALSE]
NoEnviron == [CONFLUENCE_EMAIL |-> "", CONFLUENCE_API_TOKEN |-> ""]
GpcIdle ==
    [pc |-> "idle", page_id |-> << >>, auth |-> <<"", "">>, results |-> << >>,
     i |-> 0, all_comments |-> << >>]
FlatIdle ==
    [pc |-> "idle", i |-> 0,
     st |-> [comment_counter |-> 0, reply_counter |-> 0, prefix |-> << >>,
             comments_text |-> << >>]]

Call(op, target, auth, outcome) ==
    [op |-> op, target |-> target, auth |-> auth, outcome |-> outcome]

\* no run in progress: the state of the specifications that call a function
\* of the module directly
RunIdle ==
    /\ DEBUG_MODE = FALSE
    /\ params = NoParams
    /\ environ = NoEnviron
    /\ remote = [auth |-> "200", page |-> "200"]
    /\ pc = "direct"
    /\ email = "" /\ token = "" /\ page_id = << >>
    /\ content = NoPage
    /\ processed_content = << >>
    /\ soup = << >> /\ idx = 0 /\ image_texts = << >>
    /\ result = NoResult

OcrIdle == ocr_pc = "idle" /\ image_data = NoData /\ table_text = NoOutcome

CleanupIdle == [pc |-> "idle", text |-> << >>, once |-> << >>, twice |-> << >>]
ThreadsIdle == << >>
OtherIdle == cleanup = CleanupIdle /\ threads = ThreadsIdle

(***************************************************************************)
(* get_page_comments and get_comment_replies, one action per request.      *)
(***************************************************************************)
\* the answers of the remote to the two comment requests: every list up to
\* the bounds when get_page_comments is called directly, a sample of them
\* within run
ListFailed == [error |-> "500", results |-> << >>]
Listed(r) == [error |-> "", results |-> r]

CommentAnswers ==
    IF pc = "direct"
    THEN {ListFailed} \cup {Listed(r) : r \in CommentResults(MaxComments)}
    ELSE {ListFailed, Listed(<< >>),
          Listed(<<ApiComment(1, FALSE, TRUE), ApiComment(2, TRUE, TRUE)>>)}

ReplyAnswers(comment_id) ==
    IF pc = "direct"
    THEN {ListFailed} \cup {Listed(r) : r \in ReplyResults(comment_id, MaxReplies)}
    ELSE {ListFailed, Listed(<<ApiReply(comment_id, 1, TRUE)>>)}

\* lines 141-160 and 178-180: the request for the comment list
FetchCommentList ==
    /\ gpc.pc = "request"
    /\ \E a \in CommentAnswers :
          /\ calls' = Append(calls, Call("comments", gpc.page_id, gpc.auth, a))
          /\ gpc' = [gpc EXCEPT
                       !.pc = IF a.error # "" \/ a.results = << >>
                              THEN "returned" ELSE "loop",
                       !.results = a.results,
                       !.i = 1]
    /\ UNCHANGED <<run_vars, flat, ocr_vars, other_vars>>

\* lines 164-176 and 121-139: one top-level comment and the request for its
\* replies
FetchReplies ==
    /\ gpc.pc = "loop"
    /\ LET comment == gpc.results[gpc.i]
           comment_id == comment.id
           next == IF gpc.i = Len(gpc.results) THEN "returned" ELSE "loop"
       IN  IF comment_id # ""
           THEN \E a \in ReplyAnswers(comment_id) :
                   /\ calls' = Append(calls,
                                      Call("replies", <<comment_id>>, gpc.auth, a))
                   /\ gpc' = [gpc EXCEPT
                                !.pc = next,
                                !.i = @ + 1,
                                !.all_comments =
                                    Append(@, comment)
                                    \o [k \in 1..Len(a.results) |->
                                            mark_reply(a.results[k], comment_id)]]
           ELSE /\ gpc' = [gpc EXCEPT !.pc = next, !.i = @ + 1,
                                      !.all_comments = Append(@, comment)]
                /\ UNCHANGED calls
    /\ UNCHANGED <<run_vars, flat, ocr_vars, other_vars>>

(***************************************************************************)
(* process_comments called on what get_page_comments returned, one action  *)
(* per iteration of its loop.                                              *)
(***************************************************************************)
\* lines 199-208
FlattenStart ==
    /\ pc = "direct"
    /\ gpc.pc = "returned"
    /\ flat.pc = "idle"
    /\ flat' = IF gpc.all_comments = << >>
               THEN [FlatIdle EXCEPT !.pc = "returned"]
               ELSE [pc |-> "loop", i |-> 1, st |-> comment_loop_start]
    /\ UNCHANGED <<run_vars, gpc, calls, ocr_vars, other_vars>>

\* lines 210-271
FlattenStep ==
    /\ flat.pc = "loop"
    /\ flat' = [pc |-> IF flat.i = Len(gpc.all_comments) THEN "returned" ELSE "loop",
                i |-> flat.i + 1,
                st |-> comment_step(flat.st, gpc.all_comments[flat.i])]
    /\ UNCHANGED <<run_vars, gpc, calls, ocr_vars, other_vars>>

(***************************************************************************)
(* extract_table_from_image called directly.                               *)
(***************************************************************************)
CallExtractTable ==
    /\ ocr_pc = "call"
    /\ table_text' = extract_table_from_image(image_data)
    /\ ocr_pc' = "returned"
    /\ UNCHANGED <<run_vars, gpc, flat, calls, image_data, other_vars>>

(***************************************************************************)
(* The line cleanup of lines 250-261 and 406-418 called directly, then     *)
(* called on its own output.                                               *)
(***************************************************************************)
CleanText ==
    /\ cleanup.pc = "call"
    /\ cleanup' = [cleanup EXCEPT !.pc = "once", !.once = clean_lines(cleanup.text)]
    /\ UNCHANGED <<run_vars, gpc, flat, calls, ocr_vars, threads>>

CleanOutput ==
    /\ cleanup.pc = "once"
    /\ cleanup' = [cleanup EXCEPT !.pc = "twice", !.twice = clean_lines(cleanup.once)]
    /\ UNCHANGED <<run_vars, gpc, flat, calls, ocr_vars, threads>>

(***************************************************************************)
(* run().                                                                  *)
(***************************************************************************)
\* lines 502-503 and the early returns: run ends with an error envelope
Fail(message) ==
    /\ pc' = "done"
    /\ result' = error_envelope(message)

images == positions(content.html, ImgKinds)
ri_attachments == positions(content.html, AttKinds)

\* a slip of lines 361-377: the loop stays on an image while no block has
\* been recorded, so a failed download is asked for again
after_image_again(i) ==
    IF i >= 1 /\ image_texts = << >> /\ Len(calls) < 4 THEN <<"images", i>>
    ELSE IF i < Len(images) THEN <<"images", i + 1>>
    ELSE IF ri_attachments # << >> THEN <<"attachments", 1>>
    ELSE <<"reduce", 0>>

\* where process_confluence_content stands after image i / attachment i
after_image(i) ==
    IF i < Len(images) THEN <<"images", i + 1>>
    ELSE IF ri_attachments # << >> THEN <<"attachments", 1>>
    ELSE <<"reduce", 0>>
after_attachment(i) ==
    IF i < Len(ri_attachments) THEN <<"attachments", i + 1>> ELSE <<"reduce", 0>>

\* lines 431-442
ResolveCredentials ==
    /\ pc = "start"
    /\ DEBUG_MODE' = params.debug
    /\ email' = or_else(params.email, environ.CONFLUENCE_EMAIL)
    /\ token' = or_else(params.api_token, environ.CONFLUENCE_API_TOKEN)
    /\ IF credential_error(email', token') # << >>
       THEN Fail(credential_error(email', token'))
       ELSE pc' = "parse_url" /\ UNCHANGED result
    /\ UNCHANGED <<params, environ, remote, page_id, content, processed_content,
                   soup, idx, image_texts, gpc, flat, calls, ocr_vars, other_vars>>

\* lines 445-448
ParseUrl ==
    /\ pc = "parse_url"
    /\ LET id == extract_page_id_from_url(params.url)
       IN  IF id.raised
           THEN Fail(id.value) /\ UNCHANGED page_id
           ELSE pc' = "auth" /\ page_id' = id.value /\ UNCHANGED result
    /\ UNCHANGED <<DEBUG_MODE, params, environ, remote, email, token, content,
                   processed_content, soup, idx, image_texts, gpc, flat, calls,
                   ocr_vars, other_vars>>

\* lines 64-87 and 451-454
TestAuth ==
    /\ pc = "auth"
    /\ calls' = Append(calls, Call("auth_probe", base_url_of(params.url),
                                   <<email, token>>, remote.auth))
    /\ IF remote.auth = "200"
       THEN pc' = "fetch" /\ UNCHANGED result
       ELSE Fail(MsgAuthFailed)
    /\ UNCHANGED <<DEBUG_MODE, params, environ, remote, email, token, page_id,
                   content, processed_content, soup, idx, image_texts, gpc, flat,
                   ocr_vars, other_vars>>

\* lines 89-119 and 457
GetContent ==
    /\ pc = "fetch"
    /\ calls' = Append(calls, Call("page", page_id, <<email, token>>, remote.page))
    /\ IF remote.page = "200"
       THEN /\ content' \in Payloads(MaxImages, MaxAttachments)
            /\ pc' = "normalize"
            /\ UNCHANGED result
       ELSE Fail(MsgFetch(remote.page)) /\ UNCHANGED content
    /\ UNCHANGED <<DEBUG_MODE, params, environ, remote, email, token, page_id,
                   processed_content, soup, idx, image_texts, gpc, flat, ocr_vars, other_vars>>

\* lines 459-465 and 324-358
BeginNormalize ==
    /\ pc = "normalize"
    /\ IF "body" \notin content.keys \/ "storage" \notin content.keys
       THEN /\ processed_content' = NoBody
            /\ pc' = after_normalize(params.include_comments)
            /\ UNCHANGED <<soup, idx, result, calls>>
       ELSE IF "value" \notin content.keys
       THEN Fail(MsgKeyError("value"))
            /\ UNCHANGED <<processed_content, soup, idx, calls>>
       ELSE \E w \in IF DEBUG_MODE THEN {"ok", "denied"} ELSE {"none"} :
              /\ calls' = IF DEBUG_MODE
                          THEN Append(calls, Call("write", <<"debug_html.html">>,
                                                  <<"", "">>, w))
                          ELSE calls
              /\ IF w = "denied"
                 THEN Fail(MsgDumpFailed) /\ UNCHANGED <<soup, idx>>
                 ELSE /\ soup' = content.html
                      /\ pc' = after_image(0)[1]
                      /\ idx' = after_image(0)[2]
                      /\ UNCHANGED result
              /\ UNCHANGED processed_content
    /\ image_texts' = << >>
    /\ UNCHANGED <<DEBUG_MODE, params, environ, remote, email, token, page_id,
                   content, gpc, flat, ocr_vars, other_vars>>

\* lines 361-377
DownloadImage ==
    /\ pc = "images"
    /\ IF content.html[images[idx]] = "<img src>"
       THEN \E r \in Downloads :
              /\ calls' = Append(calls, Call("image", <<"src", ToString(idx)>>,
                                             <<email, token>>, r))
              /\ LET got == download_image(r)
                     table == extract_table_from_image(got.value)
                 IN  IF got.raised
                     THEN Fail(got.value) /\ UNCHANGED <<soup, idx, image_texts>>
                     ELSE IF truthy(got.value) /\ table.raised
                     THEN Fail(table.value) /\ UNCHANGED <<soup, idx, image_texts>>
                     ELSE /\ pc' = after_image(idx)[1]
                          /\ idx' = after_image(idx)[2]
                          /\ UNCHANGED result
                          /\ IF truthy(got.value)
                             THEN /\ image_texts' =
                                       Append(image_texts, image_block(idx, table.value))
                                  /\ soup' = [soup EXCEPT
                                                ![images[idx]] = image_token(idx)]
                             ELSE UNCHANGED <<soup, image_texts>>
       ELSE /\ pc' = after_image(idx)[1]
            /\ idx' = after_image(idx)[2]
            /\ UNCHANGED <<soup, image_texts, result, calls>>
    /\ UNCHANGED <<DEBUG_MODE, params, environ, remote, email, token, page_id,
                   content, processed_content, gpc, flat, ocr_vars, other_vars>>

\* lines 380-391
DownloadAttachment ==
    /\ pc = "attachments"
    /\ IF content.html[ri_attachments[idx]] = "<ri:attachment ri:filename>"
       THEN IF "id" \notin content.keys
            THEN Fail(MsgKeyError("id")) /\ UNCHANGED <<idx, image_texts, calls>>
            ELSE \E r \in AttachmentDownloads :
                   /\ calls' = Append(calls,
                                      Call("attachment", <<content.id, ToString(idx)>>,
                                           <<email, token>>, r))
                   /\ LET got == download_image(r)
                          table == extract_table_from_image(got.value)
                      IN  IF got.raised
                          THEN Fail(got.value) /\ UNCHANGED <<idx, image_texts>>
                          ELSE IF truthy(got.value) /\ table.raised
                          THEN Fail(table.value) /\ UNCHANGED <<idx, image_texts>>
                          ELSE /\ pc' = after_attachment(idx)[1]
                               /\ idx' = after_attachment(idx)[2]
                               /\ UNCHANGED result
                               /\ image_texts' =
                                     IF truthy(got.value)
                                     THEN Append(image_texts,
                                                 attachment_block(idx, table.value))
                                     ELSE image_texts
       ELSE /\ pc' = after_attachment(idx)[1]
            /\ idx' = after_attachment(idx)[2]
            /\ UNCHANGED <<image_texts, result, calls>>
    /\ UNCHANGED <<DEBUG_MODE, params, environ, remote, email, token, page_id,
                   content, processed_content, soup, gpc, flat, ocr_vars, other_vars>>

\* lines 393-427 and 465
ReduceText ==
    /\ pc = "reduce"
    /\ processed_content' = final_content(soup, image_texts, DEBUG_MODE)
    /\ pc' = after_normalize(params.include_comments)
    /\ UNCHANGED <<DEBUG_MODE, params, environ, remote, email, token, page_id,
                   content, soup, idx, image_texts, result, gpc, flat, calls,
                   ocr_vars, other_vars>>

\* lines 468-470: the call of get_page_comments
CallGetPageComments ==
    /\ pc = "comments"
    /\ gpc.pc = "idle"
    /\ gpc' = [GpcIdle EXCEPT !.pc = "request", !.page_id = page_id,
                              !.auth = <<email, token>>]
    /\ UNCHANGED <<run_vars, flat, calls, ocr_vars, other_vars>>

\* lines 471-474
AppendComments ==
    /\ pc = "comments"
    /\ gpc.pc = "returned"
    /\ LET comments_text == process_comments(gpc.all_comments)
       IN  processed_content' = IF comments_text # << >>
                                THEN processed_content \o comments_text
                                ELSE processed_content
    /\ pc' = "persist"
    /\ UNCHANGED <<DEBUG_MODE, params, environ, remote, email, token, page_id,
                   content, soup, idx, image_texts, result, gpc, flat, calls,
                   ocr_vars, other_vars>>

\* lines 476-503: the optional write of the output file, then the envelope
PersistAndReturn ==
    /\ pc = "persist"
    /\ \E w \in IF params.output_file # "" THEN {"ok", "denied"} ELSE {"none"} :
          calls' = IF params.output_file # ""
                   THEN Append(calls, Call("write", <<params.output_file>>,
                                           <<"", "">>, w))
                   ELSE calls
    /\ LET missing == first_missing(content, <<"title", "type", "status", "id">>)
       IN  IF missing # ""
           THEN Fail(MsgKeyError(missing))
           ELSE /\ pc' = "done"
                /\ result' = success_envelope(content, processed_content,
                                              params.url, params.output_file)
    /\ UNCHANGED <<DEBUG_MODE, params, environ, remote, email, token, page_id,
                   content, processed_content, soup, idx, image_texts, gpc, flat,
                   ocr_vars, other_vars>>

(***************************************************************************)
(* Two invocations of run in one process, each in a thread of its own.     *)
(* A frame holds the locals of one invocation; DEBUG_MODE is the module's  *)
(* global, which both assign (line 432) and both read (lines 333, 424).    *)
(* Credentials, probe and page fetch succeed; the page has one inline      *)
(* image at most.                                                          *)
(***************************************************************************)
ThreadIds == {1, 2}

ThreadStart(d) ==
    [pc |-> "start", debug |-> d, html |-> << >>, soup |-> << >>,
     image_texts |-> << >>, dump |-> FALSE, content |-> << >>]

ThreadPages == {Html(<< >>, << >>), Html(<<"<img src>">>, << >>)}

run_locals == <<params, environ, remote, pc, email, token, page_id, content,
                processed_content, soup, idx, image_texts, result>>

\* lines 431-432
T_SetDebugMode(t) ==
    /\ threads[t].pc = "start"
    /\ DEBUG_MODE' = threads[t].debug
    /\ threads' = [threads EXCEPT ![t].pc = "fetch"]
    /\ UNCHANGED <<run_locals, gpc, flat, calls, ocr_vars, cleanup>>

\* lines 435-457
T_GetContent(t) ==
    /\ threads[t].pc = "fetch"
    /\ \E h \in ThreadPages :
          threads' = [threads EXCEPT ![t].pc = "normalize", ![t].html = h]
    /\ UNCHANGED <<run_vars, gpc, flat, calls, ocr_vars, cleanup>>

\* lines 324-359: the dump is written when the global says so
T_BeginNormalize(t) ==
    /\ threads[t].pc = "normalize"
    /\ threads' = [threads EXCEPT
                      ![t].pc = IF positions(threads[t].html, ImgKinds) # << >>
                                THEN "images" ELSE "reduce",
                      ![t].dump = DEBUG_MODE,
                      ![t].soup = threads[t].html]
    /\ UNCHANGED <<run_vars, gpc, flat, calls, ocr_vars, cleanup>>

\* lines 361-377, for the image of the page
T_DownloadImage(t) ==
    /\ threads[t].pc = "images"
    /\ \E r \in Downloads :
          LET at == positions(threads[t].html, ImgKinds)[1]
              got == download_image(r).value
          IN  threads' = [threads EXCEPT
                            ![t].pc = "reduce",
                            ![t].image_texts =
                                IF truthy(got)
                                THEN <<image_block(1, extract_table_from_image(got).value)>>
                                ELSE << >>,
                            ![t].soup = IF truthy(got)
                                        THEN [@ EXCEPT ![at] = image_token(1)]
                                        ELSE @]
    /\ UNCHANGED <<run_vars, gpc, flat, calls, ocr_vars, cleanup>>

\* lines 393-427 and 491-500: the note is appended when the global says so
T_ReduceText(t) ==
    /\ threads[t].pc = "reduce"
    /\ threads' = [threads EXCEPT
                      ![t].pc = "done",
                      ![t].content = final_content(threads[t].soup,
                                                   threads[t].image_texts,
                                                   DEBUG_MODE)]
    /\ UNCHANGED <<run_vars, gpc, flat, calls, ocr_vars, cleanup>>

(***************************************************************************)
(* Spec: one invocation of run, on every input and every remote.           *)
(***************************************************************************)
Init ==
    /\ DEBUG_MODE = FALSE
    /\ \E c \in CredentialCases, u \in Urls, d \in BOOLEAN, o \in {"", "out.txt"},
          ic \in BOOLEAN :
          /\ params = [email |-> c.email, api_token |-> c.api_token, url |-> u,
                       debug |-> d, output_file |-> o, include_comments |-> ic]
          /\ environ = [CONFLUENCE_EMAIL |-> c.CONFLUENCE_EMAIL,
                        CONFLUENCE_API_TOKEN |-> c.CONFLUENCE_API_TOKEN]
    /\ remote \in [auth : AuthAnswers, page : PageAnswers]
    /\ pc = "start"
    /\ email = "" /\ token = "" /\ page_id = << >>
    /\ content = NoPage
    /\ processed_content = << >>
    /\ soup = << >> /\ idx = 0 /\ image_texts = << >>
    /\ result = NoResult
    /\ gpc = GpcIdle
    /\ flat = FlatIdle
    /\ calls = << >>
    /\ OcrIdle
    /\ OtherIdle

Next ==
    \/ ResolveCredentials
    \/ ParseUrl
    \/ TestAuth
    \/ GetContent
    \/ BeginNormalize
    \/ DownloadImage
    \/ DownloadAttachment
    \/ ReduceText
    \/ CallGetPageComments
    \/ FetchCommentList
    \/ FetchReplies
    \/ AppendComments
    \/ PersistAndReturn

Spec == Init /\ [][Next]_vars

(***************************************************************************)
(* SpecComments: get_page_comments called on every remote, then            *)
(* process_comments on what it returned.                                   *)
(***************************************************************************)
CommentsInit ==
    /\ RunIdle
    /\ OcrIdle
    /\ OtherIdle
    /\ gpc = [GpcIdle EXCEPT !.pc = "request", !.page_id = <<"123456">>,
                             !.auth = <<"p@x", "ptok">>]
    /\ flat = FlatIdle
    /\ calls = << >>

CommentsNext ==
    \/ FetchCommentList
    \/ FetchReplies
    \/ FlattenStart
    \/ FlattenStep

SpecComments == CommentsInit /\ [][CommentsNext]_vars

(***************************************************************************)
(* SpecOcr: extract_table_from_image called on every byte string.          *)
(***************************************************************************)
OcrInit ==
    /\ RunIdle
    /\ gpc = GpcIdle
    /\ flat = FlatIdle
    /\ calls = << >>
    /\ ocr_pc = "call"
    /\ image_data \in ImageBytes
    /\ table_text = NoOutcome
    /\ OtherIdle

OcrNext == CallExtractTable

SpecOcr == OcrInit /\ [][OcrNext]_vars

(***************************************************************************)
(* SpecCleanup: the line cleanup called on every text, then on its output. *)
(***************************************************************************)
CleanAlphabet == {"a", "b", " ", "*", "#", "\n"}

CleanTexts == UNION {[1..n -> CleanAlphabet] : n \in 0..MaxLineLen}

CleanupInit ==
    /\ RunIdle
    /\ OcrIdle
    /\ gpc = GpcIdle
    /\ flat = FlatIdle
    /\ calls = << >>
    /\ cleanup \in {[CleanupIdle EXCEPT !.pc = "call", !.text = t] : t \in CleanTexts}
    /\ threads = ThreadsIdle

CleanupNext ==
    \/ CleanText
    \/ CleanOutput

SpecCleanup == CleanupInit /\ [][CleanupNext]_vars

(***************************************************************************)
(* SpecResolver: run called on every URL made of up to MaxUrlParts pieces  *)
(* after the host, with credentials and a remote that knows no such page.  *)
(***************************************************************************)
UrlChunks ==
    {PagesMark, PageIdMark, <<"/", "p", "a", "g", "e", "s">>,
     <<"/">>, <<"&">>, <<"?">>, <<"7">>, <<"8">>}

ResolverUrls == {UrlHost \o concat(parts) : parts \in SeqsUpTo(UrlChunks, MaxUrlParts)}

ResolverInit ==
    /\ DEBUG_MODE = FALSE
    /\ params \in {[NoParams EXCEPT !.email = "p@x", !.api_token = "ptok", !.url = u] :
                      u \in ResolverUrls}
    /\ environ = NoEnviron
    /\ remote = [auth |-> "200", page |-> "404"]
    /\ pc = "start"
    /\ email = "" /\ token = "" /\ page_id = << >>
    /\ content = NoPage
    /\ processed_content = << >>
    /\ soup = << >> /\ idx = 0 /\ image_texts = << >>
    /\ result = NoResult
    /\ gpc = GpcIdle
    /\ flat = FlatIdle
    /\ calls = << >>
    /\ OcrIdle
    /\ OtherIdle

ResolverNext ==
    \/ ResolveCredentials
    \/ ParseUrl
    \/ TestAuth
    \/ GetContent

SpecResolver == ResolverInit /\ [][ResolverNext]_vars

(***************************************************************************)
(* SpecConcurrent: two invocations of run whose steps interleave.          *)
(***************************************************************************)
ConcurrentInit ==
    /\ RunIdle
    /\ OcrIdle
    /\ gpc = GpcIdle
    /\ flat = FlatIdle
    /\ calls = << >>
    /\ cleanup = CleanupIdle
    /\ threads \in {[t \in ThreadIds |-> ThreadStart(d[t])] : d \in [ThreadIds -> BOOLEAN]}

ConcurrentNext ==
    \E t \in ThreadIds :
        \/ T_SetDebugMode(t)
        \/ T_GetContent(t)
        \/ T_BeginNormalize(t)
        \/ T_DownloadImage(t)
        \/ T_ReduceText(t)

SpecConcurrent == ConcurrentInit /\ [][ConcurrentNext]_vars

(***************************************************************************)
(* What the claims say of run, read off its inputs, the remote's answers   *)
(* and the log of calls.                                                   *)
(***************************************************************************)
Done == pc = "done"
Succeeded == Done /\ result.status = "success"
Errored == Done /\ result.status = "error"
CallsOf(ops) == SelectSeq(calls, LAMBDA c : c.op \in ops)
PageFetched == \E k \in 1..Len(calls) : calls[k].op = "page" /\ calls[k].outcome = "200"
WellFormed == content.keys = PageKeys
DumpDenied ==
    \E k \in 1..Len(calls) :
        calls[k].op = "write" /\ calls[k].target = <<"debug_html.html">>
        /\ calls[k].outcome = "denied"
OutputWrites ==
    SelectSeq(calls, LAMBDA c : c.op = "write" /\ c.target # <<"debug_html.html">>)
Contains(s, sub) ==
    \/ sub = << >>
    \/ \E k \in 0..(Len(s) - Len(sub)) :
           s[k + 1] = sub[1] /\ SubSeq(s, k + 1, k + Len(sub)) = sub

\* C1 as stated: once the page fetch has returned a payload, run returns a
\* success envelope, whatever the payload, the debug setting and the
\* outcome of normalization, comment flattening and file writing.
C1_SuccessAfterFetch ==
    (Done /\ PageFetched) => result.status = "success"

\* the text the claim gives the block of downloaded bytes
ExpectedText(bytes) ==
    IF bytes.decode # "ok"
    THEN <<"[Unable to process image: ", bytes.decode, "]">>
    ELSE extract_table_from_image(bytes).value

\* the blocks the claim gives a sequence of downloads: none for a failed
\* download (an error, or an answer without a byte, which the code takes for
\* a failed download), one for each download that brought bytes
RECURSIVE ExpectedBlocks(_)
ExpectedBlocks(downloads) ==
    IF downloads = << >> THEN << >>
    ELSE LET d == Head(downloads)
             label == IF d.op = "image" THEN "\n--- IMAGE " ELSE "\n--- ATTACHMENT "
         IN  (IF d.outcome.error # "" \/ d.outcome.content.empty THEN << >>
              ELSE <<<<label, d.target[2], " ---\n">>
                     \o ExpectedText(d.outcome.content) \o <<"\n">>>>)
             \o ExpectedBlocks(Tail(downloads))

CommentFetchFailed ==
    \E k \in 1..Len(calls) : calls[k].op = "comments" /\ calls[k].outcome.error # ""
ReplyFetchFailed ==
    \E k \in 1..Len(calls) : calls[k].op = "replies" /\ calls[k].outcome.error # ""

\* C2: for a well-formed page whose fetch succeeded, every combination of
\* failed downloads, undecodable bytes and failed comment or reply fetches
\* leaves the result at "success": a failed download gives no block, corrupt
\* bytes give a block with the placeholder, the other blocks are what their
\* own bytes give, and a failed comment fetch gives no comments section.
C2_ItemFailuresAbsorbed ==
    (Done /\ PageFetched /\ WellFormed /\ ~DumpDenied) =>
        /\ result.status = "success"
        /\ image_texts = ExpectedBlocks(CallsOf({"image", "attachment"}))
        /\ image_texts # << >> =>
               Contains(result.content, ImagesHeader \o concat(image_texts))
        /\ CommentFetchFailed => ~HasToken(result.content, CommentsHeader[1])

\* C2 witness: a corrupt image beside a good one, a failed attachment
\* download and a failed reply fetch, in a run that succeeded
C2_Witness ==
    /\ Succeeded
    /\ \E j, k \in 1..Len(calls) :
          /\ calls[j].op = "image" /\ calls[j].outcome = Answered(CorruptBytes)
          /\ calls[k].op = "image" /\ calls[k].outcome = Answered(TableBytes)
    /\ \E k \in 1..Len(calls) :
          calls[k].op = "attachment" /\ calls[k].outcome.error # ""
    /\ ReplyFetchFailed
    /\ Contains(result.content, <<"[Unable to process image: ", DecodeError, "]">>)

\* C3: the page fetch is attempted only after the probe answered 200; the
\* downloads, the comment requests and the file writes only after the page
\* fetch succeeded; the comment requests only when include_comments is set;
\* after a failed probe or a failed page fetch nothing more is attempted.
C3_StepsGated ==
    pc # "direct" =>
        \A k \in 1..Len(calls) :
            /\ calls[k].op = "auth_probe" => k = 1
            /\ calls[k].op = "page" =>
                   k = 2 /\ calls[1].op = "auth_probe" /\ calls[1].outcome = "200"
            /\ calls[k].op \in {"image", "attachment", "comments", "replies", "write"} =>
                   k > 2 /\ calls[2].op = "page" /\ calls[2].outcome = "200"
            /\ calls[k].op \in {"comments", "replies"} => params.include_comments
            /\ (calls[k].op \in {"auth_probe", "page"} /\ calls[k].outcome # "200") =>
                   k = Len(calls)

\* C3 witness: a finished run that made every kind of call
C3_Witness ==
    /\ Done
    /\ \A op \in {"auth_probe", "page", "image", "attachment", "comments",
                  "replies", "write"} :
          \E k \in 1..Len(calls) : calls[k].op = op

\* the earliest step that fails on the inputs and the remote, in the order
\* of the claim, as its message; << >> when none of the five fails
EarliestFailure ==
    IF params.email = "" /\ environ.CONFLUENCE_EMAIL = "" THEN MsgNoEmail
    ELSE IF params.api_token = "" /\ environ.CONFLUENCE_API_TOKEN = "" THEN MsgNoToken
    ELSE IF ~Contains(params.url, PagesMark) /\ ~Contains(params.url, PageIdMark)
    THEN MsgNoPageId
    ELSE IF remote.auth # "200" THEN MsgAuthFailed
    ELSE IF remote.page # "200" THEN <<"Error fetching content: ", remote.page>>
    ELSE << >>

\* C4: every terminal failure returns exactly status "error" and a message,
\* and when one of missing email, missing token, unresolvable page ID,
\* failed probe, failed page fetch occurs, the run fails with the message
\* of the earliest of them.
C4_EarliestFailureReported ==
    /\ Errored => DOMAIN result = {"status", "message"}
    /\ (Done /\ EarliestFailure # << >>) =>
           result = [status |-> "error", message |-> EarliestFailure]

\* C4 witness: no email, no token, no page ID and a remote that rejects
\* everything; the missing email is what is reported
C4_Witness ==
    /\ Errored
    /\ params.email = "" /\ environ.CONFLUENCE_EMAIL = ""
    /\ params.api_token = "" /\ environ.CONFLUENCE_API_TOKEN = ""
    /\ params.url = UrlNoId
    /\ remote.auth # "200" /\ remote.page # "200"
    /\ result.message = MsgNoEmail

\* C5 as stated: the output file is written only when output_file is given,
\* and every run that reaches the persistence step returns status "success"
\* with the payload's title, type, status and id, whether the write
\* succeeds or fails.
C5_PersistenceBestEffort ==
    /\ OutputWrites # << >> => params.output_file # ""
    /\ (Done /\ OutputWrites # << >>) =>
           /\ result.status = "success"
           /\ result = success_envelope(content, processed_content, params.url,
                                        params.output_file)

\* the document process_confluence_content returned
NormalizedContent ==
    IF "body" \notin content.keys \/ "storage" \notin content.keys
    THEN NoBody
    ELSE final_content(soup, image_texts, DEBUG_MODE)

\* C7: flattening an empty comment list yields the empty string, without
\* the header, and with include_comments set an empty list or a failed
\* comment fetch leaves the content what it is with include_comments unset.
C7_EmptyCommentsAddNothing ==
    /\ (gpc.pc = "returned" /\ gpc.all_comments = << >>) =>
           process_comments(gpc.all_comments) = << >>
    /\ (Succeeded /\ ~params.include_comments) => result.content = NormalizedContent
    /\ (Succeeded /\ params.include_comments /\ gpc.all_comments = << >>) =>
           /\ result.content = NormalizedContent
           /\ ~HasToken(result.content, CommentsHeader[1])

\* C7 witness: an empty list answered to a run with include_comments set
C7_Witness ==
    /\ Succeeded
    /\ params.include_comments
    /\ \E k \in 1..Len(calls) : calls[k].op = "comments" /\ calls[k].outcome.error = ""
    /\ gpc.all_comments = << >>
    /\ image_texts # << >>

(***************************************************************************)
(* What the claims say of the labels of process_comments.                  *)
(***************************************************************************)
TopLevelUpTo(cs, i) == {j \in 1..i : ~is_reply(cs[j])}
Max(S) == CHOOSE x \in S : \A y \in S : y <= x

\* the label of comment i: its position among the top-level comments, or
\* among the replies that follow the most recent top-level comment
ExpectedLabel(cs, i) ==
    IF is_reply(cs[i])
    THEN <<"  REPLY ", ToString(i - Max(TopLevelUpTo(cs, i)))>>
    ELSE <<"COMMENT ", ToString(Cardinality(TopLevelUpTo(cs, i)))>>

\* the labels of the entries of a flattened text, in order
RECURSIVE LabelsIn(_)
LabelsIn(text) ==
    IF Len(text) < 3 THEN << >>
    ELSE IF text[1] = "--- " THEN <<<<text[2], text[3]>>>> \o LabelsIn(Tail(text))
    ELSE LabelsIn(Tail(text))

RECURSIVE ExpectedLabels(_, _, _)
ExpectedLabels(cs, i, n) ==
    IF i > n THEN << >>
    ELSE (IF cs[i].body # << >> THEN <<ExpectedLabel(cs, i)>> ELSE << >>)
         \o ExpectedLabels(cs, i + 1, n)

\* C6: on a list that starts with a top-level comment, each top-level
\* comment gets the label COMMENT k, k its position among the top-level
\* comments, and each reply REPLY j, j its position among the replies after
\* the most recent top-level comment; the entries of the text carry these
\* labels.
C6_LabelsCountPerThread ==
    (flat.pc \in {"loop", "returned"} /\ flat.i > 1) =>
        /\ flat.st.prefix = ExpectedLabel(gpc.all_comments, flat.i - 1)
        /\ LabelsIn(flat.st.comments_text)
               = ExpectedLabels(gpc.all_comments, 1, flat.i - 1)

\* C6 witness: [C1, R1, C2, R2] flattened to COMMENT 1, REPLY 1, COMMENT 2,
\* REPLY 1
C6_Witness ==
    /\ flat.pc = "returned"
    /\ Len(gpc.all_comments) = 4
    /\ [k \in 1..4 |-> is_reply(gpc.all_comments[k])] = <<FALSE, TRUE, FALSE, TRUE>>
    /\ LabelsIn(flat.st.comments_text)
           = <<<<"COMMENT ", "1">>, <<"  REPLY ", "1">>,
               <<"COMMENT ", "2">>, <<"  REPLY ", "1">>>>

(***************************************************************************)
(* What the claims say of the OCR text, read off the text one character at *)
(* a time: its non-blank lines, each with its words single-spaced.         *)
(***************************************************************************)
RECURSIVE Squeeze(_, _, _)
Squeeze(s, acc, gap) ==
    IF s = << >> THEN acc
    ELSE IF Head(s) = " " THEN Squeeze(Tail(s), acc, acc # << >>)
    ELSE Squeeze(Tail(s),
                 IF gap THEN acc \o <<" ", Head(s)>> ELSE Append(acc, Head(s)),
                 FALSE)

FlushLine(out, line) ==
    IF Squeeze(line, << >>, FALSE) = << >> THEN out
    ELSE Append(out, Squeeze(line, << >>, FALSE))

RECURSIVE NonBlankLines(_, _, _)
NonBlankLines(s, line, out) ==
    IF s = << >> THEN FlushLine(out, line)
    ELSE IF Head(s) = "\n" THEN NonBlankLines(Tail(s), << >>, FlushLine(out, line))
    ELSE NonBlankLines(Tail(s), Append(line, Head(s)), out)

TextLines == NonBlankLines(image_data.text, << >>, << >>)

RECURSIVE ExpectedRows(_, _)
ExpectedRows(lines, i) ==
    IF i > Len(lines) THEN << >>
    ELSE <<"Row ", ToString(i - 1), ": ">> \o lines[i] \o <<"\n">>
         \o ExpectedRows(lines, i + 1)

OcrReturned == ocr_pc = "returned"
OcrRead == image_data.decode = "ok" /\ image_data.ocr = "ok"

\* C8: extract_table_from_image never raises and never returns the empty
\* string: on every byte string it returns a non-empty string, and on a
\* decode or OCR error that string is "[Unable to process image: <error>]".
C8_NeverRaisesNeverEmpty ==
    OcrReturned =>
        /\ ~table_text.raised
        /\ table_text.value # << >>
        /\ image_data.decode # "ok" =>
               table_text.value
                   = <<"[Unable to process image: ", image_data.decode, "]">>
        /\ (image_data.decode = "ok" /\ image_data.ocr # "ok") =>
               table_text.value
                   = <<"[Unable to process image: ", image_data.ocr, "]">>

\* C8 witness: the call returned on bytes that do not decode
C8_Witness ==
    /\ OcrReturned
    /\ image_data.decode = DecodeError
    /\ ~image_data.empty
    /\ table_text.value = <<"[Unable to process image: ", DecodeError, "]">>

\* C9: with at least 2 non-blank lines of OCR text the result is the table
\* header, "Headers: <line 1>" and exactly one "Row i: <line i+1>" for
\* every further non-blank line, i from 1 without gaps in OCR order, each
\* line trimmed with its whitespace runs collapsed; blank lines give no row.
C9_TableFormat ==
    (OcrReturned /\ OcrRead /\ Len(TextLines) >= 2) =>
        table_text
            = Return(<<"TABLE DATA (structured for analysis):\n">>
                     \o <<"Headers: ">> \o TextLines[1] \o <<"\n">>
                     \o ExpectedRows(TextLines, 2))

\* C9 witness: three non-blank lines, a blank line among the lines
C9_Witness ==
    /\ OcrReturned /\ OcrRead
    /\ Len(TextLines) = 3
    /\ Len(split(image_data.text, "\n")) > 3
    /\ HasToken(table_text.value, "2")

\* C10 as stated: with exactly one non-blank line the result is
\* "IMAGE CONTENT: " followed by that line, whatever surrounds the line.
C10_Original ==
    (OcrReturned /\ OcrRead /\ Len(TextLines) = 1) =>
        \/ table_text = Return(<<"IMAGE CONTENT: ">> \o TextLines[1])
        \/ table_text = Return(<<"IMAGE CONTENT: ">> \o strip(image_data.text))

\* C10 amended: with exactly one non-blank line the result has no
\* "Headers:" or "Row" entry and is "IMAGE CONTENT: " followed by the whole
\* OCR text as the engine gave it, blank lines and whitespace included.
C10_SingleLineRawText ==
    (OcrReturned /\ OcrRead /\ Len(TextLines) = 1) =>
        /\ table_text = Return(<<"IMAGE CONTENT: ">> \o image_data.text)
        /\ ~HasToken(table_text.value, "Headers: ")
        /\ ~HasToken(table_text.value, "Row ")

\* C10 witness: one non-blank line with a line break after it
C10_Witness ==
    /\ OcrReturned /\ OcrRead
    /\ Len(TextLines) = 1
    /\ image_data.text # TextLines[1]
    /\ image_data.text[Len(image_data.text)] = "\n"
    /\ table_text.value = <<"IMAGE CONTENT: ">> \o image_data.text

(***************************************************************************)
(* What the claims say of the line cleanup.                                *)
(***************************************************************************)
CleanedTwice == cleanup.pc = "twice"

\* a text that has no whitespace at either end and no two spaces in a row
SingleSpaced(s) ==
    /\ s # << >> => (s[1] \notin Whitespace /\ s[Len(s)] \notin Whitespace)
    /\ \A k \in 1..(Len(s) - 1) : ~(s[k] = " " /\ s[k + 1] = " ")

\* C11 as stated: the cleanup applied to its own output returns that output
\* unchanged, for every input text.
C11_Original ==
    CleanedTwice => cleanup.twice = cleanup.once

\* C11 amended: the cleanup applied to its own output returns the same words
\* in the same order, no marker and no line break, and returns the output
\* unchanged when the output has no whitespace at either end and no two
\* spaces in a row.
C11_SameWordsFixedWhenSingleSpaced ==
    CleanedTwice =>
        /\ Squeeze(cleanup.twice, << >>, FALSE) = Squeeze(cleanup.once, << >>, FALSE)
        /\ \A c \in {"*", "#", "\n"} :
               ~HasToken(cleanup.once, c) /\ ~HasToken(cleanup.twice, c)
        /\ SingleSpaced(cleanup.once) => cleanup.twice = cleanup.once

\* C11 witness: three spaces between two words, two after the first pass
\* and one after the second
C11_Witness ==
    /\ CleanedTwice
    /\ cleanup.text = <<"a", " ", " ", " ", "b">>
    /\ cleanup.once = <<"a", " ", " ", "b">>
    /\ cleanup.twice = <<"a", " ", "b">>

(***************************************************************************)
(* What the claims say of the inline images of a page.                     *)
(***************************************************************************)
\* the normalizer has returned the document of a page that has a body
Reduced ==
    /\ processed_content # << >>
    /\ "body" \in content.keys /\ "storage" \in content.keys

\* the download of image n brought bytes (an answer without a byte is taken
\* for a failed download, as in C2)
Downloaded(n) ==
    \E k \in 1..Len(calls) :
        /\ calls[k].op = "image" /\ calls[k].target = <<"src", ToString(n)>>
        /\ calls[k].outcome.error = "" /\ ~calls[k].outcome.content.empty

BlocksOfImage(n) ==
    {k \in 1..Len(image_texts) :
        SubSeq(image_texts[k], 1, 3) = <<"\n--- IMAGE ", ToString(n), " ---\n">>}

TokenOfImage(n) == "[IMAGE_" \o ToString(n) \o "_PROCESSED_BELOW]"

\* C12: for the n-th inline image element in document order, a download
\* that succeeds records exactly one block "--- IMAGE n ---" and replaces
\* the element by [IMAGE_n_PROCESSED_BELOW]; a download that fails records
\* no block and leaves no such token for n in the final document, and the
\* remaining images and the text reduction are still processed.
C12_ImageBlockAndToken ==
    LET at == images
        got == {n \in 1..Len(at) : Downloaded(n)}
    IN  /\ Reduced =>
               \A n \in 1..Len(at) :
                   IF n \in got
                   THEN /\ Cardinality(BlocksOfImage(n)) = 1
                        /\ soup[at[n]] = TokenOfImage(n)
                        /\ HasToken(processed_content, TokenOfImage(n))
                   ELSE /\ BlocksOfImage(n) = {}
                        /\ ~HasToken(soup, TokenOfImage(n))
                        /\ ~HasToken(processed_content, TokenOfImage(n))
        /\ (Done /\ PageFetched /\ WellFormed /\ ~DumpDenied) =>
               /\ Reduced
               /\ Succeeded =>
                      \A n \in 1..Len(at) :
                          (n \in got) = HasToken(result.content, TokenOfImage(n))
               /\ \A n \in 1..Len(at) :
                      content.html[at[n]] = "<img src>" =>
                          Cardinality({k \in 1..Len(calls) :
                                          /\ calls[k].op = "image"
                                          /\ calls[k].target = <<"src", ToString(n)>>}) = 1

\* C12 witness: the download of image 1 failed and that of image 2 brought
\* bytes; the document carries the token and the block of image 2 only
C12_Witness ==
    /\ Succeeded
    /\ Len(images) = 2
    /\ \E k \in 1..Len(calls) :
          /\ calls[k].op = "image" /\ calls[k].target = <<"src", "1">>
          /\ calls[k].outcome.error # ""
    /\ Downloaded(2)
    /\ ~HasToken(result.content, "[IMAGE_1_PROCESSED_BELOW]")
    /\ HasToken(result.content, "[IMAGE_2_PROCESSED_BELOW]")
    /\ Contains(result.content, <<"\n--- IMAGE ", "2", " ---\n">>)
    /\ ~Contains(result.content, <<"\n--- IMAGE ", "1", " ---\n">>)

(***************************************************************************)
(* What the claims say of the page ID, read off the characters of the URL. *)
(***************************************************************************)
\* the offsets at which mark occurs in url
Occurrences(url, mark) ==
    {k \in 0..(Len(url) - Len(mark)) : SubSeq(url, k + 1, k + Len(mark)) = mark}

\* the characters of url after offset k, up to the next stop or the end
RECURSIVE Following(_, _, _)
Following(url, k, stop) ==
    IF k >= Len(url) \/ url[k + 1] = stop THEN << >>
    ELSE <<url[k + 1]>> \o Following(url, k + 1, stop)

\* the IDs the claim allows for a URL: the characters after an occurrence of
\* '/pages/' up to '/', else those after an occurrence of 'pageId=' up to '&'
AllowedIds(url) ==
    IF Occurrences(url, PagesMark) # {}
    THEN {Following(url, k + Len(PagesMark), "/") : k \in Occurrences(url, PagesMark)}
    ELSE {Following(url, k + Len(PageIdMark), "&") : k \in Occurrences(url, PageIdMark)}

UrlParsed == pc \notin {"start", "parse_url", "direct"}

\* C13: a URL that contains '/pages/' gives the characters that follow
\* '/pages/' up to the next '/' or the end; otherwise one that contains
\* 'pageId=' gives the characters that follow it up to the next '&' or the
\* end; any other URL makes run return the error envelope without a call.
\* '/pages/' wins when both are present, and the ID goes to the page fetch
\* as it is, empty or not.
C13_PageIdFromUrl ==
    UrlParsed =>
        IF AllowedIds(params.url) = {}
        THEN /\ Done
             /\ result = [status |-> "error", message |-> MsgNoPageId]
             /\ calls = << >>
        ELSE /\ page_id \in AllowedIds(params.url)
             /\ ~HasToken(page_id, IF Contains(params.url, PagesMark) THEN "/" ELSE "&")
             /\ \A k \in 1..Len(calls) : calls[k].op = "page" => calls[k].target = page_id
             /\ Done => /\ \E k \in 1..Len(calls) : calls[k].op = "page"
                        /\ result.message # MsgNoPageId

\* C13 witness: both shapes in one URL, 'pageId=8' before '/pages/7'; the
\* page fetched is 7
C13_Witness ==
    /\ Done
    /\ params.url = UrlHost \o PageIdMark \o <<"8">> \o PagesMark \o <<"7">>
    /\ page_id = <<"7">>
    /\ \E k \in 1..Len(calls) : calls[k].op = "page" /\ calls[k].target = <<"7">>

(***************************************************************************)
(* What the claims say of the credentials the calls carry.                 *)
(***************************************************************************)
NetworkOps == {"auth_probe", "page", "comments", "replies", "image", "attachment"}

\* C14: the probe, the page fetch, the comment and reply fetches and the
\* downloads carry the explicit email and api_token parameters when they
\* are given, also when the environment variables are set, and the
\* environment's value only for a parameter that is absent.
C14_ParameterBeforeEnvironment ==
    pc # "direct" =>
        \A k \in 1..Len(calls) :
            calls[k].op \in NetworkOps =>
                /\ params.email # "" => calls[k].auth[1] = params.email
                /\ params.api_token # "" => calls[k].auth[2] = params.api_token
                /\ params.email = "" => calls[k].auth[1] = environ.CONFLUENCE_EMAIL
                /\ params.api_token = "" =>
                       calls[k].auth[2] = environ.CONFLUENCE_API_TOKEN

\* C14 witness: both parameters and both variables set to different values,
\* in a run that made every kind of network call with the parameters
C14_Witness ==
    /\ Done
    /\ params.email = "p@x" /\ environ.CONFLUENCE_EMAIL = "e@x"
    /\ params.api_token = "ptok" /\ environ.CONFLUENCE_API_TOKEN = "etok"
    /\ \A op \in NetworkOps :
          \E k \in 1..Len(calls) :
              calls[k].op = op /\ calls[k].auth = <<"p@x", "ptok">>

(***************************************************************************)
(* What the claims say of two invocations in one process.                  *)
(***************************************************************************)
\* C15 as stated: when the steps of two invocations interleave, the content
\* each returns and its debug side effects, the debug note and the dump of
\* debug_html.html, are those of its own debug parameter, whatever the
\* other invocation's debug parameter is.
C15_InvocationsShareNoState ==
    \A t \in DOMAIN threads :
        threads[t].pc = "done" =>
            /\ threads[t].dump = threads[t].debug
            /\ threads[t].content
                   = final_content(threads[t].soup, threads[t].image_texts,
                                   threads[t].debug)

(***************************************************************************)
(* What the claims say of the number of network calls.                     *)
(***************************************************************************)
CallsTo(op, target) ==
    {k \in 1..Len(calls) : calls[k].op = op /\ calls[k].target = target}

\* the numbers, among the elements of the given kinds, of those of one kind
WithSource(kinds, kind) ==
    LET at == positions(content.html, kinds)
    IN  {n \in 1..Len(at) : content.html[at[n]] = kind}

\* the top-level comments of the answered list that carry an id
WithId == {j \in 1..Len(gpc.results) : gpc.results[j].id # ""}

\* C16: a run makes at most one probe, one page fetch and one comment-list
\* fetch; one download for every inline image that has a source and every
\* attachment that has a filename, and none for the others; one reply fetch
\* for every top-level comment that has an id, and none for the others; no
\* call is made again after it failed.
C16_EachCallOnce ==
    pc # "direct" =>
        LET network == {k \in 1..Len(calls) : calls[k].op \in NetworkOps}
            imgs == {<<"src", ToString(n)>> : n \in WithSource(ImgKinds, "<img src>")}
            atts == {<<content.id, ToString(n)>> :
                        n \in WithSource(AttKinds, "<ri:attachment ri:filename>")}
            ids == {<<gpc.results[j].id>> : j \in WithId}
        IN  /\ \A op \in {"auth_probe", "page", "comments"} :
                   Cardinality({k \in network : calls[k].op = op}) <= 1
            /\ Cardinality({<<calls[k].op, calls[k].target>> : k \in network})
                   = Cardinality(network)
            /\ \A k \in network :
                   /\ calls[k].op = "image" => calls[k].target \in imgs
                   /\ calls[k].op = "attachment" => calls[k].target \in atts
                   /\ calls[k].op = "replies" => calls[k].target \in ids
            /\ Reduced =>
                   /\ \A t \in imgs : Cardinality(CallsTo("image", t)) = 1
                   /\ \A t \in atts : Cardinality(CallsTo("attachment", t)) = 1
            /\ gpc.pc = "returned" =>
                   /\ Cardinality({k \in network : calls[k].op = "comments"}) = 1
                   /\ \A t \in ids : Cardinality(CallsTo("replies", t)) = 1

\* C16 witness: a finished run in which a download, the attachment's
\* download and a reply fetch failed, every call made once
C16_Witness ==
    /\ Done
    /\ Len(images) = 2
    /\ \E k \in 1..Len(calls) : calls[k].op = "image" /\ calls[k].outcome.error # ""
    /\ \E k \in 1..Len(calls) : calls[k].op = "attachment" /\ calls[k].outcome.error # ""
    /\ ReplyFetchFailed
    /\ Len(gpc.results) = 2
    /\ Cardinality({k \in 1..Len(calls) : calls[k].op = "replies"}) = 1
    /\ Cardinality({k \in 1..Len(calls) : calls[k].op \in {"image", "attachment"}})
           = Cardinality(WithSource(ImgKinds, "<img src>"))
             + Cardinality(WithSource(AttKinds, "<ri:attachment ri:filename>"))

(***************************************************************************)
(* What the claims say of the list get_page_comments returns, read off the *)
(* answers of the remote in the log of calls.                              *)
(***************************************************************************)
\* the top-level comments the remote answered, none when the request failed
AnsweredComments ==
    LET at == {k \in 1..Len(calls) : calls[k].op = "comments"}
    IN  IF at = {} THEN << >> ELSE calls[CHOOSE k \in at : TRUE].outcome.results

\* the replies the remote answered for a comment, none when the request
\* failed or was not made
AnsweredReplies(comment) ==
    LET at == CallsTo("replies", <<comment.id>>)
    IN  IF at = {} THEN << >> ELSE calls[CHOOSE k \in at : TRUE].outcome.results

\* a comment followed by its replies, each marked as a reply to it
Thread(comment) ==
    LET replies == AnsweredReplies(comment)
    IN  <<comment>>
        \o [k \in 1..Len(replies) |->
               [id |-> replies[k].id, by |-> replies[k].by, when |-> replies[k].when,
                ancestors |-> replies[k].ancestors, body |-> replies[k].body,
                is_reply |-> TRUE, parent_id |-> comment.id]]

RECURSIVE Threads(_, _)
Threads(comments, n) ==
    IF n = 0 THEN << >> ELSE Threads(comments, n - 1) \o Thread(comments[n])

\* C17: the list get_page_comments returns holds the top-level comments in
\* the order of the API, each followed at once by its own replies in the
\* order of the API, marked is_reply with its id as parent_id; a comment
\* whose reply fetch failed is there without replies, and the threads of
\* the other comments are what they are without the failure.
C17_ThreadsInApiOrder ==
    /\ gpc.pc \in {"loop", "returned"} =>
           gpc.all_comments = Threads(AnsweredComments, gpc.i - 1)
    /\ gpc.pc = "returned" =>
           /\ SelectSeq(gpc.all_comments, LAMBDA c : ~is_reply(c)) = AnsweredComments
           /\ \A k \in 1..Len(calls) :
                  (calls[k].op = "replies" /\ calls[k].outcome.error # "") =>
                      /\ \E j \in 1..Len(gpc.all_comments) :
                             gpc.all_comments[j].id = calls[k].target[1]
                      /\ \A j \in 1..Len(gpc.all_comments) :
                             is_reply(gpc.all_comments[j]) =>
                                 gpc.all_comments[j].parent_id # calls[k].target[1]

\* C17 witness: two comments, the reply fetch of the first failed and the
\* second has two replies
C17_Witness ==
    /\ gpc.pc = "returned"
    /\ Len(AnsweredComments) = 2
    /\ \E k \in 1..Len(calls) :
          /\ calls[k].op = "replies" /\ calls[k].target = <<"c1">>
          /\ calls[k].outcome.error # ""
    /\ Len(gpc.all_comments) = 4
    /\ [k \in 1..4 |-> is_reply(gpc.all_comments[k])] = <<FALSE, FALSE, TRUE, TRUE>>
    /\ gpc.all_comments[3].parent_id = "c2" /\ gpc.all_comments[4].parent_id = "c2"
    /\ gpc.all_comments[3].id = "c2r1" /\ gpc.all_comments[4].id = "c2r2"

(***************************************************************************)
(* What the claims say of the entries process_comments renders.            *)
(***************************************************************************)
\* C18 as stated: the text holds one entry for every comment of the list,
\* in the order of the list, a comment without a body included, so the
\* COMMENT labels of the text are 1..K for K top-level comments.
C18_EveryCommentRendered ==
    (flat.pc = "returned" /\ gpc.all_comments # << >>) =>
        LET cs == gpc.all_comments
            labels == LabelsIn(flat.st.comments_text)
            K == Cardinality(TopLevelUpTo(cs, Len(cs)))
        IN  /\ labels = [i \in 1..Len(cs) |-> ExpectedLabel(cs, i)]
            /\ {l[2] : l \in {labels[i] : i \in {j \in 1..Len(labels) :
                                                     labels[j][1] = "COMMENT "}}}
                   = {ToString(k) : k \in 1..K}

====
